---- MODULE Spec2Model ----
(***************************************************************************)
(* Model of package env (var.go): the construction of a Var from a struct  *)
(* field, its `env` tag and a lookup function.                             *)
(*                                                                         *)
(* Go strings are modelled as sequences of one-character strings, so that  *)
(* strings.Split, strings.ToUpper, strconv.Atoi and time.ParseDuration are *)
(* computed, not assumed.  A reflect.Value is a record of its dynamic type *)
(* and contents; the zero reflect.Value (reflect.ValueOf(nil)) is Nil.  An *)
(* error is a record [kind, Value, Type]; the nil error is NoErr.          *)
(***************************************************************************)
EXTENDS Integers, Sequences, FiniteSets, TLC

\* ------------------------------------------------------------------------
\* Bounds of the checked universe
\* ------------------------------------------------------------------------

\* the largest number of space-separated directives in a tag
MaxTokens == 2

\* ------------------------------------------------------------------------
\* Strings
\* ------------------------------------------------------------------------

Lower == <<"a","b","c","d","e","f","g","h","i","j","k","l","m",
           "n","o","p","q","r","s","t","u","v","w","x","y","z">>
Upper == <<"A","B","C","D","E","F","G","H","I","J","K","L","M",
           "N","O","P","Q","R","S","T","U","V","W","X","Y","Z">>
Digits == <<"0","1","2","3","4","5","6","7","8","9">>

Empty == << >>

IsDigit(c) == \E i \in 1..Len(Digits) : Digits[i] = c

DigitVal(c) == (CHOOSE i \in 1..Len(Digits) : Digits[i] = c) - 1

UpperChar(c) ==
    IF \E i \in 1..Len(Lower) : Lower[i] = c
    THEN Upper[CHOOSE i \in 1..Len(Lower) : Lower[i] = c]
    ELSE c

\* strings.ToUpper
ToUpper(s) == [i \in 1..Len(s) |-> UpperChar(s[i])]

\* strings.Split(s, sep) for a one-character separator: every piece between
\* separators, empty pieces included; Split("", sep) is [""]
RECURSIVE Split(_, _)
Split(s, sep) ==
    IF \E i \in 1..Len(s) : s[i] = sep
    THEN LET i == CHOOSE j \in 1..Len(s) :
                      s[j] = sep /\ \A k \in 1..(j-1) : s[k] # sep
         IN  <<SubSeq(s, 1, i-1)>> \o Split(SubSeq(s, i+1, Len(s)), sep)
    ELSE <<s>>

RECURSIVE Join(_, _)
Join(ss, sep) ==
    IF ss = << >> THEN Empty
    ELSE IF Len(ss) = 1 THEN ss[1]
    ELSE ss[1] \o <<sep>> \o Join(Tail(ss), sep)

\* the value of a run of decimal digits
RECURSIVE DigitsVal(_)
DigitsVal(s) ==
    IF s = Empty THEN 0
    ELSE 10 * DigitsVal(SubSeq(s, 1, Len(s)-1)) + DigitVal(s[Len(s)])

AllDigits(s) == s # Empty /\ \A i \in 1..Len(s) : IsDigit(s[i])

\* ------------------------------------------------------------------------
\* reflect.Value, reflect.Type, error
\* ------------------------------------------------------------------------

\* A reflect.Value: the name of its dynamic type and its contents, held in
\* the field of its kind (s: text, n: integer, b: boolean), the others blank.
\* reflect.ValueOf(nil), the zero reflect.Value, has no type
Nil == [typ |-> "invalid", s |-> Empty, n |-> 0, b |-> FALSE]

IsNil(x) == x.typ = "invalid"

\* reflect.ValueOf(x) for a string, an integer, a boolean x of type typ
StringValue(typ, x) == [typ |-> typ, s |-> x, n |-> 0, b |-> FALSE]
IntValue(typ, x)    == [typ |-> typ, s |-> Empty, n |-> x, b |-> FALSE]
BoolValue(typ, x)   == [typ |-> typ, s |-> Empty, n |-> 0, b |-> x]

\* a.Interface() == b.Interface(): same dynamic type and same contents
InterfaceEq(a, b) == a = b

NoErr == [kind |-> "nil", Value |-> Empty, Type |-> << >>]

\* var.go:283 conversionError
conversionError(v, t) == [kind |-> "errConversion", Value |-> v, Type |-> t]

\* the field types of the checked universe: t.String() and t.Kind()
TString   == [name |-> "string",        kind |-> "string"]
TInt      == [name |-> "int",           kind |-> "int"]
TBool     == [name |-> "bool",          kind |-> "bool"]
TDuration == [name |-> "time.Duration", kind |-> "int64"]

Types == {TString, TInt, TBool, TDuration}

\* reflect.Zero(t)
Zero(t) ==
    CASE t.kind = "string" -> StringValue(t.name, Empty)
      [] t.kind = "bool"   -> BoolValue(t.name, FALSE)
      [] OTHER             -> IntValue(t.name, 0)

\* ------------------------------------------------------------------------
\* Library conversions
\* ------------------------------------------------------------------------

\* strconv.Atoi: optional sign, then decimal digits
Atoi(s) ==
    LET signed == s # Empty /\ s[1] \in {"+", "-"}
        body   == IF signed THEN Tail(s) ELSE s
    IN  IF AllDigits(body)
        THEN [ok |-> TRUE,
              val |-> IF signed /\ s[1] = "-" THEN 0 - DigitsVal(body)
                      ELSE DigitsVal(body)]
        ELSE [ok |-> FALSE, val |-> 0]

\* strconv.ParseBool
ParseBool(s) ==
    IF s \in {<<"1">>, <<"t">>, <<"T">>, <<"T","R","U","E">>,
              <<"t","r","u","e">>, <<"T","r","u","e">>}
    THEN [ok |-> TRUE, val |-> TRUE]
    ELSE IF s \in {<<"0">>, <<"f">>, <<"F">>, <<"F","A","L","S","E">>,
                   <<"f","a","l","s","e">>, <<"F","a","l","s","e">>}
    THEN [ok |-> TRUE, val |-> FALSE]
    ELSE [ok |-> FALSE, val |-> FALSE]

\* the units of time.ParseDuration, in nanoseconds (a minute and an hour
\* lie beyond 32-bit integers; the texts of the universe do not use them)
UnitNanos(u) ==
    CASE u = <<"n","s">> -> 1
      [] u = <<"u","s">> -> 1000
      [] u = <<"m","s">> -> 1000000
      [] u = <<"s">>     -> 1000000000
      [] u = <<"m">>     -> 60 * 1000000000
      [] u = <<"h">>     -> 3600 * 1000000000
      [] OTHER           -> -1

\* the length of the longest prefix of s made of digits (d = TRUE) or of
\* non-digits (d = FALSE)
RECURSIVE Run(_, _)
Run(s, d) ==
    IF s = Empty \/ IsDigit(s[1]) # d THEN 0
    ELSE 1 + Run(Tail(s), d)

\* time.ParseDuration on unsigned texts without fractions: "0", or one or
\* more <digits><unit> groups; the result in nanoseconds
RECURSIVE DurationGroups(_)
DurationGroups(s) ==
    IF s = Empty THEN [ok |-> TRUE, val |-> 0]
    ELSE LET n == Run(s, TRUE)
             r == SubSeq(s, n+1, Len(s))
             u == Run(r, FALSE)
         IN  IF n = 0 \/ u = 0 \/ UnitNanos(SubSeq(r, 1, u)) < 0
             THEN [ok |-> FALSE, val |-> 0]
             ELSE LET rest == DurationGroups(SubSeq(r, u+1, Len(r)))
                  IN  IF rest.ok
                      THEN [ok |-> TRUE,
                            val |-> DigitsVal(SubSeq(s, 1, n))
                                      * UnitNanos(SubSeq(r, 1, u)) + rest.val]
                      ELSE rest

ParseDuration(s) ==
    IF s = <<"0">> THEN [ok |-> TRUE, val |-> 0]
    ELSE IF s = Empty THEN [ok |-> FALSE, val |-> 0]
    ELSE DurationGroups(s)

\* yaml.v2's boolean literals
YamlTrue == {<<"y">>, <<"Y">>, <<"y","e","s">>, <<"Y","e","s">>, <<"Y","E","S">>,
             <<"t","r","u","e">>, <<"T","r","u","e">>, <<"T","R","U","E">>,
             <<"o","n">>, <<"O","n">>, <<"O","N">>}
YamlFalse == {<<"n">>, <<"N">>, <<"n","o">>, <<"N","o">>, <<"N","O">>,
              <<"f","a","l","s","e">>, <<"F","a","l","s","e">>,
              <<"F","A","L","S","E">>,
              <<"o","f","f">>, <<"O","f","f">>, <<"O","F","F">>}

\* yaml's decoding of a duration text, time.ParseDuration having given d
yamlDuration(t, d) ==
    IF d.ok THEN [ok |-> TRUE, val |-> IntValue(t.name, d.val)]
    ELSE [ok |-> FALSE, val |-> Nil]

\* yaml.Unmarshal([]byte(value), a.Interface()) for a pointer a to a fresh t
\* and a plain scalar value (letters, digits, commas): the decoded *a, or
\* failure.  A string takes the scalar's text, an integer a decimal scalar,
\* a boolean a YAML boolean literal, a time.Duration a decimal scalar (as
\* nanoseconds) or a duration text; i is the scalar read as a decimal
yamlDecode(t, value, i) ==
    CASE t.kind = "string" -> [ok |-> TRUE, val |-> StringValue(t.name, value)]
      [] t.kind = "bool" ->
            IF value \in YamlTrue \cup YamlFalse
            THEN [ok |-> TRUE, val |-> BoolValue(t.name, value \in YamlTrue)]
            ELSE [ok |-> FALSE, val |-> Nil]
      [] t.kind \in {"int", "int64"} ->
            IF i.ok THEN [ok |-> TRUE, val |-> IntValue(t.name, i.val)]
            ELSE IF t.name = "time.Duration"
            THEN yamlDuration(t, ParseDuration(value))
            ELSE [ok |-> FALSE, val |-> Nil]
      [] OTHER -> [ok |-> FALSE, val |-> Nil]

YamlUnmarshal(t, value) == yamlDecode(t, value, Atoi(value))

\* ------------------------------------------------------------------------
\* var.go: conversions.  Each returns [val, err], Go's (reflect.Value, error)
\* ------------------------------------------------------------------------

sKind == <<"k","i","n","d">>
sType == <<"t","y","p","e">>
sYaml == <<"y","a","m","l">>

\* reflect.Zero(reflect.TypeOf(reflect.Int)): the zero reflect.Kind
ZeroKind == IntValue("reflect.Kind", 0)

\* parseInt after strconv.Atoi gave i
intResult(value, i) ==
    IF ~i.ok THEN [val |-> Nil, err |-> conversionError(value, <<"int">>)]
    ELSE [val |-> IntValue("int", i.val), err |-> NoErr]

parseInt(value) ==
    IF value = Empty THEN [val |-> ZeroKind, err |-> NoErr]
    ELSE intResult(value, Atoi(value))

\* parseBool after strconv.ParseBool gave b
boolResult(value, b) ==
    IF ~b.ok THEN [val |-> Nil, err |-> conversionError(value, <<"bool">>)]
    ELSE [val |-> BoolValue("bool", b.val), err |-> NoErr]

parseBool(value) ==
    IF value = Empty THEN [val |-> ZeroKind, err |-> NoErr]
    ELSE boolResult(value, ParseBool(value))

\* parseYaml after yaml.Unmarshal gave a
yamlResult(t, value, a) ==
    IF ~a.ok
    THEN [val |-> Nil,
          err |-> conversionError(value,
                      <<"yaml conversion error", t.kind, t.name>>)]
    ELSE [val |-> a.val, err |-> NoErr]

parseYaml(t, value) ==
    yamlResult(t, value, YamlUnmarshal(t, value))

parseSlice(t, value) == parseYaml(t, value)

parseMap(t, value) == parseYaml(t, value)

convertWithKind(t, value) ==
    IF value = Empty THEN [val |-> Nil, err |-> NoErr]
    ELSE CASE t.kind = "string" ->
                  [val |-> StringValue("string", value), err |-> NoErr]
           [] t.kind = "int"   -> parseInt(value)
           [] t.kind = "bool"  -> parseBool(value)
           [] t.kind = "slice" -> parseSlice(t, value)
           [] t.kind = "map"   -> parseMap(t, value)
           [] OTHER ->
                  [val |-> Nil,
                   err |-> conversionError(value, <<"unsupported", t.kind>>)]

\* convertWithType after time.ParseDuration gave result
durationResult(value, result) ==
    IF result.ok
    THEN [val |-> IntValue("time.Duration", result.val), err |-> NoErr]
    ELSE [val |-> IntValue("time.Duration", 0),
          err |-> [kind |-> "time.ParseDuration", Value |-> value,
                   Type |-> <<"invalid duration">>]]

convertWithType(t, value) ==
    IF t.name = "time.Duration"
    THEN durationResult(value, ParseDuration(value))
    ELSE [val |-> Nil,
          err |-> conversionError(value, <<"unsupported type", t.name>>)]

convertWithYaml(t, value) == parseYaml(t, value)

\* convert with no decode strategy, convertWithType having given byType:
\* any error of it makes convert try convertWithKind
typeThenKind(t, value, byType) ==
    IF byType.err # NoErr THEN convertWithKind(t, value) ELSE byType

\* convert taking an unknown decode token for "kind"
convertAnyDecode(t, value, decode) ==
    IF value = Empty THEN [val |-> Nil, err |-> NoErr]
    ELSE CASE decode = Empty ->
                  typeThenKind(t, value, convertWithType(t, value))
           [] decode = sType -> convertWithType(t, value)
           [] decode = sYaml -> convertWithYaml(t, value)
           [] OTHER -> convertWithKind(t, value)

\* convert without the check for the empty value
convertNoEmptyCheck(t, value, decode) ==
    CASE decode = Empty ->
              typeThenKind(t, value, convertWithType(t, value))
      [] decode = sKind -> convertWithKind(t, value)
      [] decode = sType -> convertWithType(t, value)
      [] decode = sYaml -> convertWithYaml(t, value)
      [] OTHER ->
              [val |-> Nil,
               err |-> conversionError(decode, <<"unsupported decode">>)]

convert(t, value, decode) ==
    IF value = Empty THEN [val |-> Nil, err |-> NoErr]
    ELSE CASE decode = Empty ->
                  typeThenKind(t, value, convertWithType(t, value))
           [] decode = sKind -> convertWithKind(t, value)
           [] decode = sType -> convertWithType(t, value)
           [] decode = sYaml -> convertWithYaml(t, value)
           [] OTHER ->
                  [val |-> Nil,
                   err |-> conversionError(decode, <<"unsupported decode">>)]

\* ------------------------------------------------------------------------
\* var.go: Var and its setters
\* ------------------------------------------------------------------------

\* the nil reflect.Type of a Var not yet parsed
NoType == [name |-> "", kind |-> "invalid"]

\* &Var{}
NewVarZero ==
    [Name |-> Empty, Key |-> Empty, Type |-> NoType, Value |-> Nil,
     Required |-> FALSE, Decode |-> Empty, Default |-> Nil, Options |-> << >>]

SetValue(nv, x)    == [nv EXCEPT !.Value = x]
SetName(nv, x)     == [nv EXCEPT !.Name = x]
SetType(nv, x)     == [nv EXCEPT !.Type = x]
SetRequired(nv, x) == [nv EXCEPT !.Required = x]
SetDecode(nv, x)   == [nv EXCEPT !.Decode = x]
SetDefault(nv, x)  == [nv EXCEPT !.Default = x]
SetOptions(nv, xs) == [nv EXCEPT !.Options = xs]

\* SetKey storing the key as given
SetKeyVerbatim(nv, x) == [nv EXCEPT !.Key = x]

SetKey(nv, x) == [nv EXCEPT !.Key = ToUpper(x)]

\* optionsContains: "true", "false", or "panic" when Interface() is called
\* on a zero reflect.Value (an option converted from an empty element)
RECURSIVE containsFrom(_, _, _)
containsFrom(opts, x, i) ==
    IF i > Len(opts) THEN "false"
    ELSE IF IsNil(x) \/ IsNil(opts[i]) THEN "panic"
    ELSE IF InterfaceEq(x, opts[i]) THEN "true"
    ELSE containsFrom(opts, x, i + 1)

optionsContains(nv, x) == containsFrom(nv.Options, x, 1)

\* ------------------------------------------------------------------------
\* var.go: Parse
\* ------------------------------------------------------------------------

sKey      == <<"k","e","y">>
sRequired == <<"r","e","q","u","i","r","e","d">>
sDecode   == <<"d","e","c","o","d","e">>
sDefault  == <<"d","e","f","a","u","l","t">>
sOptions  == <<"o","p","t","i","o","n","s">>

\* the directive name and the value of one tagParam
ParamKey(tagParam) == Split(tagParam, "=")[1]
ParamValue(tagParam) ==
    IF Len(Split(tagParam, "=")) > 1 THEN Split(tagParam, "=")[2] ELSE Empty

\* the map filled from the tag's params, a later param overwriting an
\* earlier one of the same name
BuildParamsMap(tag) ==
    LET tagParams == Split(tag, " ")
        last(k) == CHOOSE i \in 1..Len(tagParams) :
                       /\ ParamKey(tagParams[i]) = k
                       /\ \A j \in (i+1)..Len(tagParams) :
                              ParamKey(tagParams[j]) # k
    IN  [k \in {ParamKey(tagParams[i]) : i \in 1..Len(tagParams)} |->
            ParamValue(tagParams[last(k)])]

\* Parse leaving the decode param to the range over the map
DecodeInRange(nv, m) == [v |-> nv, m |-> m]

\* the decode param is processed first and removed from the map: [v, m]
DecodeFirst(nv, m) ==
    IF sDecode \in DOMAIN m
    THEN [v |-> SetDecode(nv, m[sDecode]),
          m |-> [k \in DOMAIN m \ {sDecode} |-> m[k]]]
    ELSE [v |-> nv, m |-> m]

\* the conversion of the options' elements from the k-th on, stopping at the
\* first that fails: [vals, err]
RECURSIVE convertOptions(_, _, _, _)
convertOptions(nv, in, k, values) ==
    IF k > Len(in) THEN [vals |-> values, err |-> NoErr]
    ELSE LET r == convert(nv.Type, in[k], nv.Decode)
         IN  IF r.err # NoErr THEN [vals |-> values, err |-> r.err]
             ELSE convertOptions(nv, in, k + 1, Append(values, r.val))

\* one iteration of the range over tagParamsMap: [v, err]; a non-nil err is
\* what Parse returns at once
ParseParam(nv, key, value) ==
    CASE key = sKey      -> [v |-> SetKey(nv, value), err |-> NoErr]
      [] key = sRequired -> [v |-> SetRequired(nv, TRUE), err |-> NoErr]
      [] key = sDecode   -> [v |-> SetDecode(nv, value), err |-> NoErr]
      [] key = sDefault  ->
            LET d == convert(nv.Type, value, nv.Decode)
            IN  IF d.err # NoErr THEN [v |-> nv, err |-> d.err]
                ELSE [v |-> SetDefault(nv, d.val), err |-> NoErr]
      [] key = sOptions  ->
            LET r == convertOptions(nv, Split(value, ","), 1, << >>)
            IN  IF r.err # NoErr THEN [v |-> nv, err |-> r.err]
                ELSE [v |-> SetOptions(nv, r.vals), err |-> NoErr]
      [] OTHER -> [v |-> nv, err |-> NoErr]

\* the calls of convert one iteration makes, as <<value, decode>> pairs
ParamConversions(nv, key, value) ==
    CASE key = sDefault -> {<<value, nv.Decode>>}
      [] key = sOptions ->
            LET in == Split(value, ",")
                n  == Len(convertOptions(nv, in, 1, << >>).vals)
            IN  {<<in[k], nv.Decode>> : k \in 1..(IF n < Len(in) THEN n + 1 ELSE n)}
      [] OTHER -> {}

\* ------------------------------------------------------------------------
\* var.go: NewVarWithFunc after Parse
\* ------------------------------------------------------------------------

requiredError(key) == [kind |-> "required", Value |-> key, Type |-> << >>]

notAllowedError(key) ==
    [kind |-> "not in allowed options", Value |-> key, Type |-> << >>]

\* get(key) for the process environment e: os.Getenv gives "" for a key
\* that is not set
Getenv(e, key) ==
    IF key \in DOMAIN e /\ e[key].set THEN e[key].val ELSE Empty

\* the policy without the zero value for a field that has no default
ApplyPolicyNoZero(nv, x) ==
    IF ~IsNil(x) THEN [v |-> SetValue(nv, x), err |-> NoErr]
    ELSE IF nv.Required
    THEN [v |-> SetValue(nv, x), err |-> requiredError(nv.Key)]
    ELSE [v |-> SetValue(nv, nv.Default), err |-> NoErr]

\* the required / default / zero-value policy applied to the converted
\* lookup result: [v, err]; a non-nil err is returned at once
ApplyPolicy(nv, x) ==
    IF ~IsNil(x) THEN [v |-> SetValue(nv, x), err |-> NoErr]
    ELSE IF nv.Required
    THEN [v |-> SetValue(nv, x), err |-> requiredError(nv.Key)]
    ELSE IF ~IsNil(nv.Default)
    THEN [v |-> SetValue(nv, nv.Default), err |-> NoErr]
    ELSE [v |-> SetValue(nv, Zero(nv.Type)), err |-> NoErr]

\* the options check: "ok", "error" or "panic"
CheckOptions(nv) ==
    IF Len(nv.Options) > 0
    THEN LET found == optionsContains(nv, nv.Value)
         IN  CASE found = "true"  -> "ok"
               [] found = "false" -> "error"
               [] OTHER -> "panic"
    ELSE "ok"

\* the return after the options check, whose result is chk
ReturnChecked(nv, x, chk) ==
    [pc    |-> IF chk = "panic" THEN "panicked" ELSE "returned",
     v     |-> nv,
     value |-> x,
     err   |-> IF chk = "error" THEN notAllowedError(nv.Key) ELSE NoErr]

\* NewVarWithFunc after the policy, whose result is p
AfterPolicy(x, p) ==
    IF p.err # NoErr
    THEN [pc |-> "returned", v |-> p.v, value |-> x, err |-> p.err]
    ELSE ReturnChecked(p.v, x, CheckOptions(p.v))

\* NewVarWithFunc after the conversion of the lookup result, which gave c
AfterConvert(nv, c) ==
    IF c.err # NoErr
    THEN [pc |-> "returned", v |-> nv, value |-> c.val, err |-> c.err]
    ELSE AfterPolicy(c.val, ApplyPolicy(nv, c.val))

\* NewVarWithFunc from the conversion of get(newVar.Key) on, for the parsed
\* newVar nv: the Var returned, the local value, the error, and whether the
\* call returned or panicked
Resolve(nv, e) ==
    AfterConvert(nv, convert(nv.Type, Getenv(e, nv.Key), nv.Decode))

\* ------------------------------------------------------------------------
\* The checked universe: one struct field, its tag, the environment
\* ------------------------------------------------------------------------

sPort == <<"P","o","r","t">>
sPORT == <<"P","O","R","T">>
sP    == <<"P">>
sp    == <<"p">>

sJson == <<"j","s","o","n">>

\* the tag param name=val
Param(name, val) == name \o <<"=">> \o val

\* the params a tag is made of: every directive, conversions that succeed
\* or fail according to the field's type, an options list with an empty
\* element, an unknown directive
TagParams ==
    { Param(sKey, sp),
      sRequired,
      Param(sDecode, sKind),
      Param(sDecode, sType),
      Param(sDecode, sYaml),
      Param(sDecode, sJson),
      Param(sDefault, <<"1">>),
      Param(sDefault, <<"b">>),
      Param(sOptions, <<"1">>),
      Param(sOptions, <<"b",",","1">>),
      Param(sOptions, <<"b",",",",","1">>),
      <<"x">> }

Tags ==
    { Join(ps, " ") : ps \in UNION { [1..n -> TagParams] : n \in 0..MaxTokens } }

Fields == [Name : {sPort}, Type : Types, Tag : Tags]

Unset == [set |-> FALSE, val |-> Empty]
Set(x) == [set |-> TRUE, val |-> x]

\* the environments: PORT unset, empty or set; P and p set or not
Envs ==
    { [k \in {sPORT, sP, sp} |->
          CASE k = sPORT -> a [] k = sP -> b [] OTHER -> c] :
        a \in {Unset, Set(Empty), Set(<<"0">>), Set(<<"1">>), Set(<<"b">>)},
        b \in {Unset, Set(<<"1">>)},
        c \in {Unset, Set(<<"0">>)} }

\* ------------------------------------------------------------------------
\* State
\* ------------------------------------------------------------------------

VARIABLES
    field,         \* the reflect.StructField given to NewVarWithFunc
    env,           \* the environment behind get
    pc,            \* the position in NewVarWithFunc / Parse
    v,             \* newVar
    tagParamsMap,  \* Parse's map of the tag's params
    pending,       \* the keys the range over tagParamsMap has yet to visit
    parseErr,      \* the error Parse returned
    value,         \* NewVarWithFunc's local value
    err,           \* the error NewVarWithFunc returns
    conversions,   \* the <<value, decode>> arguments of Parse's convert calls
    lookedUp       \* the keys passed to get

vars == <<field, env, pc, v, tagParamsMap, pending, parseErr, value, err,
          conversions, lookedUp>>

Init ==
    /\ field \in Fields
    /\ env \in Envs
    /\ pc = "Parse"
    /\ v = NewVarZero
    /\ tagParamsMap = << >>
    /\ pending = {}
    /\ parseErr = NoErr
    /\ value = Nil
    /\ err = NoErr
    /\ conversions = {}
    /\ lookedUp = {}

\* Parse up to the range loop: name, type and default key; the params map;
\* the decode param first
ParseTag ==
    /\ pc = "Parse"
    /\ LET nv == SetKey(SetType(SetName(v, field.Name), field.Type), field.Name)
       IN  IF field.Tag = Empty
           THEN /\ v' = nv
                /\ pc' = "convert"
                /\ UNCHANGED <<tagParamsMap, pending>>
           ELSE LET r == DecodeFirst(nv, BuildParamsMap(field.Tag))
                IN  /\ v' = r.v
                    /\ tagParamsMap' = r.m
                    /\ pending' = DOMAIN r.m
                    /\ pc' = "range"
    /\ UNCHANGED <<field, env, parseErr, value, err, conversions, lookedUp>>

\* one iteration of `for key, value := range tagParamsMap`, the map's keys
\* coming in any order; a failed conversion makes Parse return its error
RangeParam ==
    /\ pc = "range"
    /\ \E key \in pending :
          LET r == ParseParam(v, key, tagParamsMap[key])
          IN  /\ v' = r.v
              /\ conversions' =
                    conversions \cup ParamConversions(v, key, tagParamsMap[key])
              /\ parseErr' = r.err
              /\ pending' = pending \ {key}
              /\ pc' = IF r.err # NoErr THEN "convert" ELSE "range"
    /\ UNCHANGED <<field, env, tagParamsMap, value, err, lookedUp>>

\* the range is over: Parse returns nil
RangeDone ==
    /\ pc = "range"
    /\ pending = {}
    /\ pc' = "convert"
    /\ UNCHANGED <<field, env, v, tagParamsMap, pending, parseErr, value, err,
                   conversions, lookedUp>>

\* the rest of NewVarWithFunc: Parse's result is dropped, get(newVar.Key) is
\* converted, the policy and the options check are applied
FinishNewVar ==
    /\ pc = "convert"
    /\ LET r == Resolve(v, env)
       IN  /\ v' = r.v
           /\ value' = r.value
           /\ err' = r.err
           /\ pc' = r.pc
    /\ lookedUp' = lookedUp \cup {v.Key}
    /\ UNCHANGED <<field, env, tagParamsMap, pending, parseErr, conversions>>

Next ==
    \/ ParseTag
    \/ RangeParam
    \/ RangeDone
    \/ FinishNewVar

Spec == Init /\ [][Next]_vars

\* ------------------------------------------------------------------------
\* Facts about the inputs
\* ------------------------------------------------------------------------

Final == pc \in {"returned", "panicked"}

\* the tag carries the directive named k
HasParam(k) == field.Tag # Empty /\ k \in DOMAIN BuildParamsMap(field.Tag)

\* the value the tag gives to directive k
ParamOf(k) == BuildParamsMap(field.Tag)[k]

\* the decode strategy the tag declares
TagDecode == IF HasParam(sDecode) THEN ParamOf(sDecode) ELSE Empty

UnsupportedDecode == TagDecode \notin {Empty, sKind, sType, sYaml}

unsupportedDecodeError == conversionError(TagDecode, <<"unsupported decode">>)

\* the lookup of the descriptor's key yields no value
NoLookupValue == Getenv(env, v.Key) = Empty

ConversionFailed == err.kind \in {"errConversion", "time.ParseDuration"}

\* the default the tag declares, converted under the tag's decode strategy
DeclaredDefault ==
    IF HasParam(sDefault)
    THEN convert(field.Type, ParamOf(sDefault), TagDecode)
    ELSE [val |-> Nil, err |-> NoErr]

\* Parse with the range visiting the map's keys in the given order: the
\* parsed Var
RECURSIVE RangeInOrder(_, _, _)
RangeInOrder(nv, m, order) ==
    IF order = << >> THEN nv
    ELSE IF order[1] \notin DOMAIN m THEN RangeInOrder(nv, m, Tail(order))
    ELSE LET r == ParseParam(nv, order[1], m[order[1]])
         IN  IF r.err # NoErr THEN r.v
             ELSE RangeInOrder(r.v, m, Tail(order))

ParseInOrder(f, order) ==
    LET nv == SetKey(SetType(SetName(NewVarZero, f.Name), f.Type), f.Name)
    IN  IF f.Tag = Empty THEN nv
        ELSE LET r == DecodeFirst(nv, BuildParamsMap(f.Tag))
             IN  RangeInOrder(r.v, r.m, order)

\* the outcome of NewVarWithFunc when the range visits key, required,
\* default, options in this order
OutcomeKeyFirst ==
    LET r == Resolve(ParseInOrder(field, <<sKey, sRequired, sDefault, sOptions>>),
                     env)
    IN  [pc |-> r.pc, v |-> r.v, err |-> r.err]

\* ------------------------------------------------------------------------
\* Claims
\* ------------------------------------------------------------------------

\* C1: when the lookup yields no value, a tag with the required directive
\* gives the error "<key> required", default or not; any other tag gives the
\* declared default as Value, or the type's zero value when it declares none
\* (the options check aside)
C1_NoValuePolicy ==
    (pc = "returned" /\ NoLookupValue) =>
        IF HasParam(sRequired) THEN err = requiredError(v.Key)
        ELSE /\ err.kind \in {"nil", "not in allowed options"}
             /\ DeclaredDefault.err = NoErr =>
                    v.Value = IF IsNil(DeclaredDefault.val)
                              THEN Zero(field.Type)
                              ELSE DeclaredDefault.val

\* C2: when the default or an options element fails to convert, so that
\* Parse returns a conversion error, NewVarWithFunc returns that error
C2_ParseErrorReturned ==
    (pc = "returned" /\ parseErr # NoErr) => err = parseErr

\* C3: with a non-empty options set declared, once the final Value is
\* obtained NewVarWithFunc returns, without error if the Value equals one of
\* the options and with the not-allowed error if it does not
C3_OptionsEnforced ==
    (/\ Final
     /\ ~ConversionFailed /\ err.kind # "required"
     /\ Len(v.Options) > 0) =>
        /\ pc = "returned"
        /\ err = NoErr <=> \E k \in 1..Len(v.Options) : v.Options[k] = v.Value
        /\ err # NoErr => err = notAllowedError(v.Key)

\* C4: a tag whose decode token is none of unset, kind, type, yaml makes
\* NewVarWithFunc return the unsupported-decode error whatever the lookup
\* yields
C4_UnsupportedDecodeAlwaysFails ==
    (pc = "returned" /\ UnsupportedDecode) => err = unsupportedDecodeError

\* C4 amended: with such a decode token NewVarWithFunc returns the
\* unsupported-decode error exactly when the lookup yields a non-empty value
C4_UnsupportedDecodeFailsOnValue ==
    (pc = "returned" /\ UnsupportedDecode) =>
        (err = unsupportedDecodeError <=> ~NoLookupValue)

C4_Witness ==
    /\ pc = "returned" /\ UnsupportedDecode
    /\ NoLookupValue /\ err = NoErr
    /\ ~HasParam(sDefault) /\ ~HasParam(sOptions)

\* C5: the outcome of NewVarWithFunc (returned or not, the error, every
\* field of the Var) is the same for every order in which the range visits
\* the tag's directives
C5_OrderIndependent ==
    Final => [pc |-> pc, v |-> v, err |-> err] = OutcomeKeyFirst

\* C6: the Value of every Var NewVarWithFunc returns is set, on the paths
\* that return an error too
C6_ValueAlwaysSet ==
    pc = "returned" => ~IsNil(v.Value)

\* C6 amended: the Value of a returned Var is unset exactly when the lookup
\* conversion failed or a required value is missing; otherwise it is the
\* converted lookup result, the default, or the type's zero value
C6_ValueSetUnlessFailed ==
    pc = "returned" =>
        /\ IsNil(v.Value) <=> (ConversionFailed \/ err.kind = "required")
        /\ ~IsNil(v.Value) =>
              \/ ~IsNil(value) /\ v.Value = value
              \/ IsNil(value) /\ ~IsNil(v.Default) /\ v.Value = v.Default
              \/ IsNil(value) /\ IsNil(v.Default) /\ v.Value = Zero(v.Type)

C6_Witness ==
    /\ pc = "returned" /\ err = NoErr
    /\ IsNil(value) /\ IsNil(v.Default) /\ v.Value = Zero(field.Type)

\* C7: with key=K in the tag (here a tag Parse reads to its end), the key
\* looked up and stored is K as written, its case kept
C7_KeyVerbatim ==
    (Final /\ HasParam(sKey) /\ parseErr = NoErr) =>
        v.Key = ParamOf(sKey) /\ lookedUp = {ParamOf(sKey)}

\* C7 amended: with key=K in the tag, the key looked up is the stored Key,
\* which is K upper-cased; when a default or options conversion failure made
\* Parse return before reaching the key directive it is the upper-cased
\* field name
C7_KeyUpperCased ==
    (Final /\ HasParam(sKey)) =>
        /\ lookedUp = {v.Key}
        /\ parseErr = NoErr => v.Key = ToUpper(ParamOf(sKey))
        /\ v.Key \in {ToUpper(ParamOf(sKey)), ToUpper(field.Name)}

C7_Witness ==
    /\ pc = "returned" /\ HasParam(sKey)
    /\ ParamOf(sKey) = sp /\ v.Key = sP /\ lookedUp = {sP}
    /\ env[sp] = Set(<<"0">>) /\ env[sP] = Set(<<"1">>)
    /\ value \in {IntValue("int", 1), StringValue("string", <<"1">>)}

C9_TypeErrorReturned ==
    LET raw == Getenv(env, v.Key)
        byType == convertWithType(v.Type, raw)
    IN  (/\ Final
         /\ v.Decode = Empty
         /\ raw # Empty
         /\ byType.err # NoErr
         /\ byType.err # conversionError(raw, <<"unsupported type", v.Type.name>>))
        => err = byType.err

\* C10: every conversion Parse makes of a default or of an options element
\* uses the decode strategy the tag declares, wherever decode stands in the
\* tag and in whatever order the other directives are visited
C10_DecodeAppliedFirst ==
    \A c \in conversions : c[2] = TagDecode

C10_Witness ==
    /\ Final
    /\ HasParam(sDecode) /\ TagDecode # Empty
    /\ ParamKey(Split(field.Tag, " ")[1]) # sDecode
    /\ conversions # {}

====
